---- MODULE Spec2Model ----
(***************************************************************************)
(* MultiStepInput (src/client/common/utils/multiStepInput.ts): the step    *)
(* navigation loop stepThrough, and the two prompt operations              *)
(* showQuickPick and showInputBox with their event listeners.              *)
(*                                                                         *)
(* A step is a caller-supplied async function.  Its body is the            *)
(* environment of the runner: it may show prompts one after another,       *)
(* return the next step (or nothing), or throw.  The user is the           *)
(* environment of a prompt: button presses, selection, typing, accept and  *)
(* hide arrive one event at a time (one JavaScript task each); the         *)
(* continuation of an await that an event settles runs in the same task.   *)
(***************************************************************************)
EXTENDS Integers, Sequences, FiniteSets, TLC

\* ------------------------------------------------------------- bounds
\* Total number of step invocations in a behaviour (all runs together).
MaxInvocations == 3
\* Number of prompts (QuickPick or InputBox) a runner creates.
MaxPrompts == 2
\* Number of keystrokes (onDidChangeValue events) per text input.
MaxKeys == 2

\* ------------------------------------------------------------- values
\* JavaScript's undefined / void.
None == "undefined"
\* The identities of the caller's steps (the chain A -> B -> C of the scenarios).
Steps == {"A", "B", "C"}
\* The three InputFlowAction singletons.
back == "back"
cancel == "cancel"
resume == "resume"
InputFlowAction == {back, cancel, resume}
\* What a step writes into the state object.
Answer == "answer"
\* Any other value a step may throw.
Failure == "Error"
\* QuickInputButtons.Back and a caller-supplied extra button.
BackButton == "QuickInputButtons.Back"
ExtraButton == "button"
\* The items of a pick list, and the texts a user may type: the two of the
\* validation scenario, and one the validator fails on.
Items == {"item"}
Texts == {"a", "ab"}
BadText == "!"
\* The message the validator of the scenarios reports.
Msg == "invalid"

VARIABLES
    pc,        \* position of run/stepThrough: "idle", "running", "done", "failed"
    step,      \* stepThrough's local variable step
    steps,     \* this.steps
    current,   \* this.current: 0 for undefined, else an index of inputs
    inputs,    \* every QuickInput the shell created, in creation order
    call,      \* position of the invoked step's body:
               \* "none", "running", "awaiting" (a prompt), "rejected" (by Back)
    result,    \* the step body's local: what its last prompt operation resolved with
    runError,  \* what the promise returned by run rejected with (None if it did not)
    invoked,   \* history: the number of step invocations so far
    outcome,   \* history: how the last step invocation ended
    state,     \* the contents of the state object passed to run
    fields,    \* two runners side by side: the instance fields of each
    runs,      \* two runners side by side: the position of each one's run
    shared     \* two runners side by side: the contents of each one's state object

\* The variables of the two runners side by side (TwoSpec below); the
\* single wizard leaves them alone.
apart == <<fields, runs, shared>>

vars == <<pc, step, steps, current, inputs, call, result, runError, invoked, outcome,
          state, fields, runs, shared>>

\* ------------------------------------------------------------- arrays
\* Array.prototype.pop: the array after the call.
Pop(a) == IF Len(a) = 0 THEN a ELSE SubSeq(a, 1, Len(a) - 1)
\* Array.prototype.pop: the value returned (undefined on an empty array).
Popped(a) == IF Len(a) = 0 THEN None ELSE a[Len(a)]

\* ------------------------------------------------------------- QuickInput
\* QuickInput.dispose(): counted, so that a second disposal is visible.
dispose(ins, i) == IF i = 0 THEN ins ELSE [ins EXCEPT ![i].disposed = @ + 1]

\* Variant: the active prompt is marked busy and left enabled.
markBusyOnly(ins, cur) ==
    IF cur # 0 THEN [ins EXCEPT ![cur].busy = TRUE] ELSE ins

\* stepThrough lines 222-225: the active prompt is disabled and marked busy.
markBusy(ins, cur) ==
    IF cur # 0 THEN [ins EXCEPT ![cur].enabled = FALSE, ![cur].busy = TRUE] ELSE ins

\* ------------------------------------------------------------- stepThrough
\* Variants of the catch block, each a slip the claims below must notice.
\* Back peeks at the previous step instead of popping it.
caughtBackPeeks(err, stk) ==
    IF err = back
        THEN [rethrow |-> FALSE, step |-> Popped(Pop(stk)), steps |-> Pop(stk)]
    ELSE IF err = resume
        THEN [rethrow |-> FALSE, step |-> Popped(stk), steps |-> Pop(stk)]
    ELSE IF err = cancel
        THEN [rethrow |-> FALSE, step |-> None, steps |-> stk]
    ELSE [rethrow |-> TRUE, step |-> None, steps |-> stk]

\* Back pops once only, so the step that raised it is entered again.
caughtBackPopsOnce(err, stk) ==
    IF err = back
        THEN [rethrow |-> FALSE, step |-> Popped(stk), steps |-> Pop(stk)]
    ELSE IF err = resume
        THEN [rethrow |-> FALSE, step |-> Popped(stk), steps |-> Pop(stk)]
    ELSE IF err = cancel
        THEN [rethrow |-> FALSE, step |-> None, steps |-> stk]
    ELSE [rethrow |-> TRUE, step |-> None, steps |-> stk]

\* Cancel is handled like Resume.
caughtCancelResumes(err, stk) ==
    IF err = back
        THEN [rethrow |-> FALSE, step |-> Popped(Pop(stk)), steps |-> Pop(Pop(stk))]
    ELSE IF err \in {resume, cancel}
        THEN [rethrow |-> FALSE, step |-> Popped(stk), steps |-> Pop(stk)]
    ELSE [rethrow |-> TRUE, step |-> None, steps |-> stk]

\* Every thrown value that is no Back or Resume ends the loop silently.
caughtSwallows(err, stk) ==
    IF err = back
        THEN [rethrow |-> FALSE, step |-> Popped(Pop(stk)), steps |-> Pop(Pop(stk))]
    ELSE IF err = resume
        THEN [rethrow |-> FALSE, step |-> Popped(stk), steps |-> Pop(stk)]
    ELSE [rethrow |-> FALSE, step |-> None, steps |-> stk]

\* Resume is not recognised and is rethrown.
caughtRethrowsResume(err, stk) ==
    IF err = back
        THEN [rethrow |-> FALSE, step |-> Popped(Pop(stk)), steps |-> Pop(Pop(stk))]
    ELSE IF err = cancel
        THEN [rethrow |-> FALSE, step |-> None, steps |-> stk]
    ELSE [rethrow |-> TRUE, step |-> None, steps |-> stk]

\* The catch block of stepThrough (lines 228-239) for a thrown value err and
\* the stack stk: whether err is rethrown, and otherwise the next value of
\* step and of this.steps.
\* A Resume that ends the run the way a Cancel does.
caughtResumeCancels(err, stk) ==
    IF err = back
        THEN [rethrow |-> FALSE, step |-> Popped(Pop(stk)), steps |-> Pop(Pop(stk))]
    ELSE IF err = resume
        THEN [rethrow |-> FALSE, step |-> None, steps |-> Pop(stk)]
    ELSE IF err = cancel
        THEN [rethrow |-> FALSE, step |-> None, steps |-> stk]
    ELSE [rethrow |-> TRUE, step |-> None, steps |-> stk]

\* A Cancel that pops the raiser off the stack before the run ends.
caughtCancelPops(err, stk) ==
    IF err = back
        THEN [rethrow |-> FALSE, step |-> Popped(Pop(stk)), steps |-> Pop(Pop(stk))]
    ELSE IF err = resume
        THEN [rethrow |-> FALSE, step |-> Popped(stk), steps |-> Pop(stk)]
    ELSE IF err = cancel
        THEN [rethrow |-> FALSE, step |-> None, steps |-> Pop(stk)]
    ELSE [rethrow |-> TRUE, step |-> None, steps |-> stk]

\* A Resume that leaves the raiser on the stack before it is entered again.
caughtResumeKeeps(err, stk) ==
    IF err = back
        THEN [rethrow |-> FALSE, step |-> Popped(Pop(stk)), steps |-> Pop(Pop(stk))]
    ELSE IF err = resume
        THEN [rethrow |-> FALSE, step |-> Popped(stk), steps |-> stk]
    ELSE IF err = cancel
        THEN [rethrow |-> FALSE, step |-> None, steps |-> stk]
    ELSE [rethrow |-> TRUE, step |-> None, steps |-> stk]

caught(err, stk) ==
    IF err = back
        THEN [rethrow |-> FALSE, step |-> Popped(Pop(stk)), steps |-> Pop(Pop(stk))]
    ELSE IF err = resume
        THEN [rethrow |-> FALSE, step |-> Popped(stk), steps |-> Pop(stk)]
    ELSE IF err = cancel
        THEN [rethrow |-> FALSE, step |-> None, steps |-> stk]
    ELSE [rethrow |-> TRUE, step |-> None, steps |-> stk]

\* A runner that leaves its prompt on screen when the loop ends.
afterLoopKeeps(ins, cur) == ins

\* What stepThrough does after the loop (lines 241-243).
afterLoop(ins, cur) == dispose(ins, cur)

\* Variant: the step is invoked without having been pushed.
loopPushesLate(next, stk) ==
    IF next # None
        THEN /\ invoked < MaxInvocations
             /\ pc' = "running"
             /\ step' = next
             /\ steps' = stk
             /\ inputs' = markBusy(inputs, current)
             /\ call' = "running"
             /\ result' = None
             /\ invoked' = invoked + 1
        ELSE /\ pc' = "done"
             /\ step' = None
             /\ steps' = stk
             /\ inputs' = afterLoop(inputs, current)
             /\ call' = "none"
             /\ result' = None
             /\ invoked' = invoked

\* One evaluation of the loop condition with step = next and this.steps = stk
\* (lines 220-227, 241-243): either the step is pushed, the active prompt is
\* marked busy and the step invoked, or the loop is left and the active
\* prompt disposed.
loop(next, stk) ==
    IF next # None
        THEN /\ invoked < MaxInvocations
             /\ pc' = "running"
             /\ step' = next
             /\ steps' = Append(stk, next)
             /\ inputs' = markBusy(inputs, current)
             /\ call' = "running"
             /\ result' = None
             /\ invoked' = invoked + 1
        ELSE /\ pc' = "done"
             /\ step' = None
             /\ steps' = stk
             /\ inputs' = afterLoop(inputs, current)
             /\ call' = "none"
             /\ result' = None
             /\ invoked' = invoked

\* run(start, state): stepThrough starts with step = start.  The caller
\* passes a state object of its own, with nothing filled in yet.
run(start) ==
    /\ pc \in {"idle", "done", "failed"}
    /\ loop(start, steps)
    /\ runError' = None
    /\ outcome' = "start"
    /\ state' = None
    /\ UNCHANGED <<current, apart>>

\* The awaited step returns next (a step, or nothing): line 227.
stepReturns(next) ==
    /\ pc = "running" /\ call = "running"
    /\ loop(next, steps)
    /\ outcome' = "forward"
    /\ UNCHANGED <<current, runError, state, apart>>

\* The awaited step's promise rejects with err: lines 228-239.
rejects(err) ==
    /\ LET c == caught(err, steps) IN
        IF c.rethrow
            THEN /\ pc' = "failed"
                 /\ runError' = err
                 /\ call' = "none"
                 /\ result' = None
                 /\ UNCHANGED <<step, steps, inputs, invoked>>
            ELSE /\ loop(c.step, c.steps)
                 /\ UNCHANGED runError
    /\ outcome' = err
    /\ UNCHANGED <<current, state, apart>>

\* The step's body throws err while it runs.
stepThrows(err) ==
    /\ pc = "running" /\ call = "running"
    /\ rejects(err)

\* The step's body does not catch the rejection of the prompt operation it
\* awaits: the InputFlowAction.back of lines 123 and 179 reaches stepThrough.
stepPropagates ==
    /\ pc = "running" /\ call = "rejected"
    /\ rejects(back)

\* The step's body catches the rejection of the prompt operation and goes on.
stepIntercepts ==
    /\ pc = "running" /\ call = "rejected"
    /\ call' = "running"
    /\ UNCHANGED <<pc, step, steps, current, inputs, result, runError, invoked, outcome,
                 state, apart>>

\* The step's body writes into the state object it was given (line 227:
\* step(this, state)); the runner itself never touches the object.
stepUpdates ==
    /\ pc = "running" /\ call = "running"
    /\ state # Answer
    /\ state' = Answer
    /\ UNCHANGED <<pc, step, steps, current, inputs, call, result, runError, invoked,
                   outcome, apart>>

\* ------------------------------------------------------------- prompts
\* The caller's validate function of the scenarios: a message for "a" and for
\* the empty text, none for "ab"; it fails (rejects) for "!".
validate(text) ==
    IF text = "ab" THEN None
    ELSE IF text = BadText THEN Failure
    ELSE Msg

\* Variant: the Back button is offered as soon as one step is on the stack.
buttonsFromFirstStep(stk, extra) ==
    (IF Len(stk) > 0 THEN {BackButton} ELSE {}) \cup (IF extra THEN {ExtraButton} ELSE {})

\* input.buttons (lines 119 and 174) for the stack stk; extra tells whether
\* the caller passed buttons.
buttons(stk, extra) ==
    (IF Len(stk) > 1 THEN {BackButton} ELSE {}) \cup (IF extra THEN {ExtraButton} ELSE {})

\* Variant: the accept listener of a choice list is registered whatever the
\* configuration says.
disposablesAlways(kind, acceptText) ==
    IF kind = "QuickPick"
        THEN {"onDidTriggerButton", "onDidChangeSelection", "onDidHide", "onDidAccept"}
        ELSE {"onDidTriggerButton", "onDidAccept", "onDidChangeValue", "onDidHide"}

\* The listeners a prompt operation registers and keeps in its disposables
\* array (lines 120-141 and 176-206).
disposables(kind, acceptText) ==
    IF kind = "QuickPick"
        THEN {"onDidTriggerButton", "onDidChangeSelection", "onDidHide"}
                \cup (IF acceptText THEN {"onDidAccept"} ELSE {})
        ELSE {"onDidTriggerButton", "onDidAccept", "onDidChangeValue", "onDidHide"}

\* shell.createQuickPick / shell.createInputBox and the assignments of lines
\* 105-119 and 166-175.  validating is the number of the validate call whose
\* promise the variable validating holds (0: validate('') of line 175);
\* pending holds the keystroke validations not yet resolved; accepting is the
\* text whose submission is being validated.
createInput(kind, stk, extra, acceptText, value) ==
    [ kind |-> kind,
      listeners |-> disposables(kind, acceptText),
      buttons |-> buttons(stk, extra),
      acceptText |-> acceptText,
      enabled |-> TRUE,
      busy |-> FALSE,
      disposed |-> 0,
      promise |-> "pending",
      value |-> value,
      validationMessage |-> None,
      validating |-> 0,
      pending |-> {},
      accepting |-> None ]

\* A prompt that is no longer this.current.  The runner holds no reference
\* to it, its promise is settled and its listeners are released, so the
\* validate calls still in flight for it can only write fields of an object
\* nothing reads: the record keeps its kind and how often it was disposed.
released(input) ==
    [input EXCEPT !.listeners = {},
                  !.buttons = {}, !.acceptText = FALSE, !.value = "",
                  !.enabled = FALSE, !.busy = FALSE,
                  !.promise = "settled",
                  !.validationMessage = None, !.validating = 0,
                  !.pending = {}, !.accepting = None]

\* Variant: the new prompt is shown without disposing the active one.
replaceCurrentKeeps(ins, cur, input) == Append(ins, input)

\* Lines 142-146 and 207-211: the active prompt is disposed, the new one
\* becomes the active prompt and is shown.
replaceCurrent(ins, cur, input) ==
    Append(IF cur = 0 THEN ins
           ELSE [dispose(ins, cur) EXCEPT ![cur] = released(dispose(ins, cur)[cur])],
           input)

\* showQuickPick, up to the await of line 104.
showQuickPick(extra, acceptFilterBoxTextAsSelection) ==
    /\ pc = "running" /\ call = "running"
    /\ Len(inputs) < MaxPrompts
    /\ inputs' = replaceCurrent(inputs, current,
                    createInput("QuickPick", steps, extra, acceptFilterBoxTextAsSelection, ""))
    /\ current' = Len(inputs) + 1
    /\ call' = "awaiting"
    /\ UNCHANGED <<pc, step, steps, result, runError, invoked, outcome,
                 state, apart>>

\* showInputBox, up to the await of line 165; value is the caller's initial
\* text (line 171).
showInputBox(extra, value) ==
    /\ pc = "running" /\ call = "running"
    /\ Len(inputs) < MaxPrompts
    /\ inputs' = replaceCurrent(inputs, current, createInput("InputBox", steps, extra, FALSE, value))
    /\ current' = Len(inputs) + 1
    /\ call' = "awaiting"
    /\ UNCHANGED <<pc, step, steps, result, runError, invoked, outcome,
                 state, apart>>

\* The listeners of prompt i are registered and not yet released by the
\* finally block (lines 148-150, 213-215).
listening(i) == i # 0 /\ inputs[i].listeners # {}

\* The user can act on prompt i: it is the one on screen and it is enabled.
usable(i) == listening(i) /\ i = current /\ inputs[i].disposed = 0 /\ inputs[i].enabled

\* Variant: the finally block of the prompt operation disposes the prompt
\* together with its listeners.
resolveDisposes(i, v, ins) ==
    IF ins[i].promise = "pending"
        THEN /\ inputs' = [dispose(ins, i) EXCEPT ![i].promise = "settled",
                                                  ![i].listeners = {}]
             /\ result' = v
             /\ call' = "running"
        ELSE /\ inputs' = ins
             /\ UNCHANGED <<result, call>>

\* Variant: a resolve that delivers its value although the promise has
\* settled before.
resolveAgain(i, v, ins) ==
    /\ inputs' = [ins EXCEPT ![i].promise = "settled", ![i].listeners = {}]
    /\ result' = v
    /\ call' = "running"

\* resolve(v) of prompt i's promise, with the continuation of the awaiting
\* step: the finally block releases the listeners (lines 148-150, 213-215)
\* and the step's body goes on with v.  A promise settles once: resolve on a
\* settled promise does nothing.
resolve(i, v, ins) ==
    IF ins[i].promise = "pending"
        THEN /\ inputs' = [ins EXCEPT ![i].promise = "settled", ![i].listeners = {}]
             /\ result' = v
             /\ call' = "running"
        ELSE /\ inputs' = ins
             /\ UNCHANGED <<result, call>>

\* Variant: the listeners are released after the await instead of in a
\* finally block, so that a rejection leaves them registered.
rejectLeaks(i, ins) ==
    IF ins[i].promise = "pending"
        THEN /\ inputs' = [ins EXCEPT ![i].promise = "settled"]
             /\ call' = "rejected"
             /\ UNCHANGED result
        ELSE /\ inputs' = ins
             /\ UNCHANGED <<result, call>>

\* reject(InputFlowAction.back) of prompt i's promise, with the finally
\* block of the awaiting prompt operation.
reject(i, ins) ==
    IF ins[i].promise = "pending"
        THEN /\ inputs' = [ins EXCEPT ![i].promise = "settled", ![i].listeners = {}]
             /\ call' = "rejected"
             /\ UNCHANGED result
        ELSE /\ inputs' = ins
             /\ UNCHANGED <<result, call>>

\* Variant: the Back button resolves the prompt operation like any button.
onDidTriggerButtonResolves(item) ==
    /\ usable(current)
    /\ item \in inputs[current].buttons
    /\ resolve(current, item, inputs)
    /\ UNCHANGED <<pc, step, steps, current, runError, invoked, outcome,
                 state, apart>>

\* input.onDidTriggerButton (lines 121-128 and 177-184).
onDidTriggerButton(item) ==
    /\ usable(current)
    /\ item \in inputs[current].buttons
    /\ IF item = BackButton
        THEN reject(current, inputs)
        ELSE resolve(current, item, inputs)
    /\ UNCHANGED <<pc, step, steps, current, runError, invoked, outcome,
                 state, apart>>

\* input.onDidChangeSelection (line 129).
onDidChangeSelection(selectedItems) ==
    /\ usable(current)
    /\ inputs[current].kind = "QuickPick"
    /\ resolve(current, Popped(selectedItems), inputs)
    /\ UNCHANGED <<pc, step, steps, current, runError, invoked, outcome,
                 state, apart>>

\* Variant: a dismissal rejects the prompt operation.
onDidHideRejects ==
    /\ listening(current)
    /\ reject(current, inputs)
    /\ UNCHANGED <<pc, step, steps, current, runError, invoked, outcome,
                 state, apart>>

\* input.onDidHide (lines 130-132 and 203-205).
onDidHide ==
    /\ listening(current)
    /\ resolve(current, None, inputs)
    /\ UNCHANGED <<pc, step, steps, current, runError, invoked, outcome,
                 state, apart>>

\* Variant: accept resolves with the selected item, of which there is none.
onDidAcceptQuickPickItem(text) ==
    /\ usable(current)
    /\ inputs[current].kind = "QuickPick"
    /\ inputs[current].acceptText
    /\ resolve(current, Popped(<<>>), inputs)
    /\ UNCHANGED <<pc, step, steps, current, runError, invoked, outcome,
                 state, apart>>

\* Variant: the accept listener is registered whatever the configuration says.
onDidAcceptQuickPickAlways(text) ==
    /\ usable(current)
    /\ inputs[current].kind = "QuickPick"
    /\ resolve(current, text, inputs)
    /\ UNCHANGED <<pc, step, steps, current, runError, invoked, outcome,
                 state, apart>>

\* input.onDidAccept of a QuickPick (lines 134-141), registered only with
\* acceptFilterBoxTextAsSelection; text is what the filter box holds.
onDidAcceptQuickPick(text) ==
    /\ usable(current)
    /\ inputs[current].kind = "QuickPick"
    /\ "onDidAccept" \in inputs[current].listeners
    /\ resolve(current, text, inputs)
    /\ UNCHANGED <<pc, step, steps, current, runError, invoked, outcome,
                 state, apart>>

\* input.onDidChangeValue of an InputBox, up to its await (lines 195-198).
onDidChangeValue(text) ==
    /\ usable(current)
    /\ inputs[current].kind = "InputBox"
    /\ inputs[current].validating < MaxKeys
    /\ LET n == inputs[current].validating + 1 IN
        inputs' = [inputs EXCEPT ![current].value = text,
                                 ![current].validating = n,
                                 ![current].pending = @ \cup {[call |-> n, text |-> text]}]
    /\ UNCHANGED <<pc, step, steps, current, call, result, runError, invoked, outcome,
                 state, apart>>

\* Variant: the result of whichever validate call resolves is displayed.
applyValidationUnchecked(input, v, r) == r

\* Lines 199-201 for the validate call v of the prompt input, resolved with
\* r: the prompt's validation message afterwards.
applyValidation(input, v, r) ==
    IF v.call = input.validating THEN r ELSE input.validationMessage

\* The validate call v of a keystroke on prompt i resolves: lines 198-201.
\* A call that fails makes the handler throw at line 198.
validated(i, v) ==
    /\ i \in 1..Len(inputs)
    /\ v \in inputs[i].pending
    /\ LET r == validate(v.text) IN
        inputs' = [inputs EXCEPT
            ![i].pending = @ \ {v},
            ![i].validationMessage =
                IF r = Failure THEN @ ELSE applyValidation(inputs[i], v, r)]
    /\ UNCHANGED <<pc, step, steps, current, call, result, runError, invoked, outcome,
                 state, apart>>

\* input.onDidAccept of an InputBox, up to its await (lines 185-189).
onDidAcceptInputBox ==
    /\ usable(current)
    /\ inputs[current].kind = "InputBox"
    /\ inputs' = [inputs EXCEPT ![current].accepting = inputs[current].value,
                                ![current].enabled = FALSE,
                                ![current].busy = TRUE]
    /\ UNCHANGED <<pc, step, steps, current, call, result, runError, invoked, outcome,
                 state, apart>>

\* Variant: the submitted value is accepted whatever the validator reports.
acceptsAnything(r) == TRUE

\* Lines 189-193 once validate(inputValue) resolved with r: whether the
\* handler calls resolve(inputValue).
accepts(r) == r = None

\* Variant: the prompt is enabled again in a finally block, whatever the
\* validate call of the submission did.
submittedRecovers(i) ==
    /\ i \in 1..Len(inputs)
    /\ inputs[i].accepting # None
    /\ LET inputValue == inputs[i].accepting
           r == validate(inputValue)
           cleared == [inputs EXCEPT ![i].accepting = None]
           enabled == [cleared EXCEPT ![i].enabled = TRUE, ![i].busy = FALSE]
       IN  IF r = Failure
               THEN /\ inputs' = enabled
                    /\ UNCHANGED <<result, call>>
           ELSE IF accepts(r)
               THEN resolve(i, inputValue, enabled)
           ELSE /\ inputs' = enabled
                /\ UNCHANGED <<result, call>>
    /\ UNCHANGED <<pc, step, steps, current, runError, invoked, outcome,
                 state, apart>>

\* The validate call of a submission on prompt i resolves: lines 189-193.
\* A call that fails makes the handler throw at line 189.
submitted(i) ==
    /\ i \in 1..Len(inputs)
    /\ inputs[i].accepting # None
    /\ LET inputValue == inputs[i].accepting
           r == validate(inputValue)
           cleared == [inputs EXCEPT ![i].accepting = None]
           enabled == [cleared EXCEPT ![i].enabled = TRUE, ![i].busy = FALSE]
       IN  IF r = Failure
               THEN /\ inputs' = cleared
                    /\ UNCHANGED <<result, call>>
           ELSE IF accepts(r)
               THEN resolve(i, inputValue, enabled)
           ELSE /\ inputs' = enabled
                /\ UNCHANGED <<result, call>>
    /\ UNCHANGED <<pc, step, steps, current, runError, invoked, outcome,
                 state, apart>>

\* ------------------------------------------------- two runners side by side
\* MultiStepInputFactory.create returns a new MultiStepInput on every call
\* (lines 254-256).  Two of them, each with a run of its own, take turns at
\* their awaits; the prompts of both come from the one shell.
Runners == {"r1", "r2"}

\* The variables of the single wizard, which two runners leave alone.
single == <<pc, step, steps, current, call, result, runError, invoked, outcome, state>>

\* Variant: steps and current declared static, one slot per class.
staticField(r, f) == <<"MultiStepInput", f>>

\* The slot of field f of runner r: current and steps are instance fields
\* (lines 80 and 82), one slot per object.
field(r, f) == <<r, f>>

Slots == {field(r, f) : r \in Runners, f \in {"steps", "current"}}

\* The field initialisers of lines 80 and 82.
create(f) == IF f = "steps" THEN <<>> ELSE 0

stepsOf(r) == fields[field(r, "steps")]
currentOf(r) == fields[field(r, "current")]

\* Runner r's run is inside the body of a step.
inStep(r) == runs[r].pc = "running" /\ runs[r].call = "running"

\* History of a run: before is the stack on which the raiser of a Back ran,
\* kept while the step entered again by that Back is in flight; again says
\* that this step has returned the raiser, which is now in flight anew.
NoBack == [before |-> <<>>, again |-> FALSE]

\* The position of a run that is not inside a step: state is the state
\* parameter of stepThrough, a reference to the caller's object.
outside(at, state_) ==
    [pc |-> at, step |-> None, call |-> "none",
     state |-> state_, given |-> None, was |-> NoBack]

\* Variant: the steps are handed the state object of the other run, as they
\* would be if the runner kept the object in a place the runners share.
loopOfShares(r, next, stk, state_, was) ==
    IF next # None
        THEN /\ Len(stk) < MaxInvocations
             /\ runs' = [runs EXCEPT ![r] =
                    [pc |-> "running", step |-> next, call |-> "running",
                     state |-> state_,
                     given |-> CHOOSE o \in Runners : o # state_,
                     was |-> was]]
             /\ fields' = [fields EXCEPT ![field(r, "steps")] = Append(stk, next)]
             /\ inputs' = markBusy(inputs, currentOf(r))
        ELSE /\ runs' = [runs EXCEPT ![r] = outside("done", state_)]
             /\ fields' = [fields EXCEPT ![field(r, "steps")] = stk]
             /\ inputs' = afterLoop(inputs, currentOf(r))

\* One turn of r's while loop (lines 220-227, 241-243), on r's own fields.
\* The step receives the state parameter itself (line 227); was is the
\* history of the step now entered.
loopOf(r, next, stk, state_, was) ==
    IF next # None
        THEN /\ Len(stk) < MaxInvocations
             /\ runs' = [runs EXCEPT ![r] =
                    [pc |-> "running", step |-> next, call |-> "running",
                     state |-> state_, given |-> state_, was |-> was]]
             /\ fields' = [fields EXCEPT ![field(r, "steps")] = Append(stk, next)]
             /\ inputs' = markBusy(inputs, currentOf(r))
        ELSE /\ runs' = [runs EXCEPT ![r] = outside("done", state_)]
             /\ fields' = [fields EXCEPT ![field(r, "steps")] = stk]
             /\ inputs' = afterLoop(inputs, currentOf(r))

\* r.run(start, state), with a state object of the caller's: the object
\* whose contents are shared[r], referred to by r.
runOf(r, start) ==
    /\ runs[r].pc \in {"idle", "done", "failed"}
    /\ loopOf(r, start, stepsOf(r), r, NoBack)
    /\ shared' = [shared EXCEPT ![r] = None]
    /\ UNCHANGED single

\* r's step, entered again by a Back, returns the step that raised it.
returnsRaiser(r, next) ==
    /\ runs[r].was.before # <<>>
    /\ ~runs[r].was.again
    /\ next = Popped(runs[r].was.before)

\* r's step returns next.
stepReturnsOf(r, next) ==
    /\ inStep(r)
    /\ loopOf(r, next, stepsOf(r), runs[r].state,
              IF returnsRaiser(r, next)
                  THEN [before |-> runs[r].was.before, again |-> TRUE]
                  ELSE NoBack)
    /\ UNCHANGED <<shared, single>>

\* r's step throws err: the catch block of lines 228-239.
stepThrowsOf(r, err) ==
    /\ inStep(r)
    /\ LET c == caught(err, stepsOf(r))
       IN  IF c.rethrow
               THEN /\ runs' = [runs EXCEPT ![r] = outside("failed", runs[r].state)]
                    /\ UNCHANGED <<fields, inputs>>
               ELSE loopOf(r, c.step, c.steps, runs[r].state,
                           IF err = back
                               THEN [before |-> stepsOf(r), again |-> FALSE]
                               ELSE NoBack)
    /\ UNCHANGED <<shared, single>>

\* r's step writes into the state object it was given.
stepUpdatesOf(r) ==
    /\ inStep(r)
    /\ shared[runs[r].given] # Answer
    /\ shared' = [shared EXCEPT ![runs[r].given] = Answer]
    /\ UNCHANGED <<fields, runs, inputs, single>>

\* r's step calls r.showQuickPick, up to the await of line 104.
showQuickPickOf(r) ==
    /\ inStep(r)
    /\ Len(inputs) < MaxPrompts
    /\ inputs' = replaceCurrent(inputs, currentOf(r),
                    createInput("QuickPick", stepsOf(r), FALSE, FALSE, ""))
    /\ fields' = [fields EXCEPT ![field(r, "current")] = Len(inputs) + 1]
    /\ runs' = [runs EXCEPT ![r].call = "awaiting"]
    /\ UNCHANGED <<shared, single>>

\* The prompt operation r's step awaits settles, by a selection (lines
\* 131-133) or by the prompt being hidden (lines 134-140), and the step's
\* body goes on.
settlesOf(r) ==
    /\ runs[r].call = "awaiting"
    /\ currentOf(r) # 0
    /\ inputs[currentOf(r)].promise = "pending"
    /\ inputs' = [inputs EXCEPT ![currentOf(r)].promise = "settled",
                                ![currentOf(r)].listeners = {}]
    /\ runs' = [runs EXCEPT ![r].call = "running"]
    /\ UNCHANGED <<fields, shared, single>>

Init ==
    /\ pc = "idle"
    /\ step = None
    /\ steps = <<>>
    /\ current = 0
    /\ inputs = <<>>
    /\ call = "none"
    /\ result = None
    /\ runError = None
    /\ invoked = 0
    /\ outcome = "none"
    /\ state = None
    /\ fields = [l \in Slots |-> create(l[2])]
    /\ runs = [r \in Runners |-> outside("idle", None)]
    /\ shared = [r \in Runners |-> None]

\* The wizard and its navigation.  Prompts settle through buttons, selection,
\* accept and hide; the text of a text input is the caller's initial value
\* (the keystrokes and their validation are the subject of InputSpec).
Next ==
    \/ \E s \in Steps : run(s)
    \/ \E n \in Steps \cup {None} : stepReturns(n)
    \/ \E e \in InputFlowAction \cup {Failure} : stepThrows(e)
    \/ stepPropagates
    \/ stepIntercepts
    \/ \E extra, acceptText \in BOOLEAN : showQuickPick(extra, acceptText)
    \/ \E extra \in BOOLEAN : \E t \in Texts : showInputBox(extra, t)
    \/ \E b \in {BackButton, ExtraButton} : onDidTriggerButton(b)
    \/ \E i \in Items : onDidChangeSelection(<<i>>)
    \/ onDidHide
    \/ \E t \in Texts : onDidAcceptQuickPick(t)
    \/ onDidAcceptInputBox
    \/ \E i \in 1..MaxPrompts : submitted(i)

Spec == Init /\ [][Next]_vars

\* One wizard whose step A shows text inputs and may return itself: every
\* interleaving of the user's keystrokes, submissions, button presses and
\* dismissals with the completions of the validate calls.
NextInput ==
    \/ run("A")
    \/ \E n \in {"A", None} : stepReturns(n)
    \/ stepPropagates
    \/ stepUpdates
    \/ \E extra \in BOOLEAN : showInputBox(extra, "")
    \/ \E b \in {BackButton, ExtraButton} : onDidTriggerButton(b)
    \/ onDidHide
    \/ \E t \in Texts \cup {BadText} : onDidChangeValue(t)
    \/ \E i \in 1..MaxPrompts :
        \E v \in [call : 1..MaxKeys, text : Texts \cup {BadText}] : validated(i, v)
    \/ onDidAcceptInputBox
    \/ \E i \in 1..MaxPrompts : submitted(i)

InputSpec == Init /\ [][NextInput]_vars

\* The step in flight ends: it returns, throws, or lets the Back of its
\* prompt through.
stepEnds ==
    \/ \E n \in Steps \cup {None} : stepReturns(n)
    \/ \E e \in InputFlowAction \cup {Failure} : stepThrows(e)
    \/ stepPropagates

\* The prompt operation the step awaits settles through an event.
settles ==
    \/ onDidTriggerButton(BackButton)
    \/ \E i \in Items : onDidChangeSelection(<<i>>)
    \/ onDidHide

\* A wizard of steps A and B with choice lists, in which every step
\* invocation comes to an end: a prompt a step awaits settles, and a step
\* that runs returns or raises.  MaxInvocations bounds the forward returns,
\* Back re-entries and Resume signals of a behaviour.
NextLive ==
    \/ run("A")
    \/ \E n \in {"B", None} : stepReturns(n)
    \/ \E e \in InputFlowAction \cup {Failure} : stepThrows(e)
    \/ stepPropagates
    \/ stepIntercepts
    \/ showQuickPick(FALSE, FALSE)
    \/ onDidTriggerButton(BackButton)
    \/ \E i \in Items : onDidChangeSelection(<<i>>)
    \/ onDidHide

LiveSpec ==
    /\ Init /\ [][NextLive]_vars
    /\ WF_vars(stepEnds)
    /\ WF_vars(stepIntercepts)
    /\ WF_vars(settles)

\* Two runners, each stepping once through a wizard of its own, from step A
\* on to step B.
NextTwo ==
    \/ \E r \in Runners : runs[r].pc = "idle" /\ runOf(r, "A")
    \/ \E r \in Runners : \E n \in {"B", None} : stepReturnsOf(r, n)
    \/ \E r \in Runners : \E err \in InputFlowAction \cup {Failure} : stepThrowsOf(r, err)
    \/ \E r \in Runners : stepUpdatesOf(r)
    \/ \E r \in Runners : showQuickPickOf(r)
    \/ \E r \in Runners : settlesOf(r)

TwoSpec == Init /\ [][NextTwo]_vars

\* ------------------------------------------------------------- properties
\* A step ends by raising Back: it throws it, or lets the rejection of its
\* prompt operation through.
BackRaised == stepThrows(back) \/ stepPropagates

\* No step is invoked in this transition.
NoInvocation == invoked' = invoked /\ call' = "none"

\* Once a run has ended, only a new call of run invokes a step.
EndedStaysEnded == (pc \in {"done", "failed"} /\ invoked' # invoked) => outcome' = "start"

\* C1: when a step at stack depth >= 2 raises Back, the step invoked next is
\* the one entered immediately before the raiser, and once it is re-entered
\* the stack equals the stack before the raiser was pushed (A -> B, B raises
\* Back: A is invoked again with stack [A]).
C1_BackReentersPrevious ==
    [][(BackRaised /\ Len(steps) >= 2) =>
        /\ pc' = "running" /\ call' = "running"
        /\ invoked' = invoked + 1
        /\ step' = steps[Len(steps) - 1]
        /\ steps' = SubSeq(steps, 1, Len(steps) - 1)
        /\ (steps = <<"A", "B">> => step' = "A" /\ steps' = <<"A">>)]_vars

C1_Witness ==
    /\ outcome = back /\ invoked = 3 /\ call = "running"
    /\ step = "A" /\ steps = <<"A">>

\* C2: raising Cancel at any stack depth ends the run normally; no step is
\* invoked afterwards, and a prompt that is on screen is disposed exactly once.
C2_CancelTerminates ==
    [][/\ stepThrows(cancel) =>
            /\ pc' = "done" /\ runError' = None
            /\ NoInvocation
            /\ \A i \in 1..Len(inputs) :
                inputs'[i].disposed =
                    IF i = current THEN inputs[i].disposed + 1 ELSE inputs[i].disposed
            /\ (current # 0 /\ inputs[current].disposed = 0 =>
                    inputs'[current].disposed = 1)
       /\ EndedStaysEnded]_vars

C2_Witness ==
    /\ pc = "done" /\ outcome = cancel /\ Len(steps) >= 2
    /\ current # 0 /\ inputs[current].disposed = 1

\* C3: a value thrown by a step that is none of Back, Cancel, Resume rejects
\* the promise of run with that value, and no step is invoked again.
C3_FailurePropagates ==
    [][/\ stepThrows(Failure) =>
            /\ pc' = "failed" /\ runError' = Failure
            /\ NoInvocation
            /\ steps' = steps
       /\ EndedStaysEnded]_vars

C3_Witness == pc = "failed" /\ runError = Failure /\ outcome = Failure /\ Len(steps) >= 2

\* C4: when a step fails while a prompt is active, the prompt has been
\* disposed by the time run has failed.
C4_DisposedOnFailure ==
    (pc = "failed" /\ current # 0) => inputs[current].disposed >= 1

\* C5: run never rejects with a control signal: it fails only when the last
\* step threw something else, and every run ended by a forward return, Back
\* or Cancel has completed normally.
C5_SignalsNeverSurface ==
    /\ pc = "failed" => (outcome = Failure /\ runError = Failure)
    /\ pc # "failed" => runError = None
    /\ (pc \in {"done", "failed"} /\ outcome \in InputFlowAction \cup {"forward"}) =>
            pc = "done"

C5_Witness == pc = "done" /\ outcome = cancel /\ invoked >= 2 /\ runError = None

\* C6: Back raised by the first step of a run, with no step below it on the
\* stack, ends the run normally and no step is invoked.
C6_BackFromFirstStep ==
    [][(BackRaised /\ Len(steps) = 1) =>
        /\ pc' = "done" /\ runError' = None
        /\ NoInvocation
        /\ steps' = <<>>]_vars

C6_Witness == pc = "done" /\ outcome = back /\ steps = <<>> /\ invoked = 1
\* C7: in a text input, the displayed validation message is only ever written
\* from the result of the validate call of the latest keystroke; the result
\* of a superseded call is discarded even when it resolves last.  With the
\* validator of the scenario, after "a" then "ab" and both calls resolved in
\* any order, no message is displayed.
C7_LastIssuedWins ==
    /\ [][\A i \in 1..Len(inputs) :
            (i = current /\ current' = current
                /\ inputs'[i].validationMessage # inputs[i].validationMessage) =>
            \E v \in inputs[i].pending :
                /\ v.call = inputs[i].validating
                /\ inputs'[i].validationMessage = validate(v.text)]_vars
    /\ [](\A i \in 1..Len(inputs) :
            (i = current /\ inputs[i].validating > 0 /\ inputs[i].pending = {}
                /\ validate(inputs[i].value) # Failure) =>
            inputs[i].validationMessage = validate(inputs[i].value))

\* The call for "ab" has resolved and is displayed; the call for "a", issued
\* before it, is still in flight.
C7_Witness ==
    /\ current # 0
    /\ inputs[current].value = "ab" /\ inputs[current].validating = 2
    /\ inputs[current].pending = {[call |-> 1, text |-> "a"]}
    /\ inputs[current].validationMessage = None

\* C8: while the validator runs on a submitted text the prompt is disabled
\* and busy; when it reports a message the prompt operation stays unresolved
\* and the prompt is enabled and not busy again; when it reports none the
\* prompt operation resolves with the submitted text.
C8_Submission ==
    /\ [](\A i \in 1..Len(inputs) :
            inputs[i].accepting # None => (~inputs[i].enabled /\ inputs[i].busy))
    /\ [][\A i \in 1..Len(inputs) :
            submitted(i) =>
                LET r == validate(inputs[i].accepting) IN
                /\ r = Msg =>
                    /\ inputs'[i].promise = inputs[i].promise
                    /\ call' = call /\ result' = result
                    /\ inputs'[i].enabled /\ ~inputs'[i].busy
                /\ (r = None /\ inputs[i].promise = "pending") =>
                    /\ inputs'[i].promise = "settled"
                    /\ call' = "running"
                    /\ result' = inputs[i].accepting]_vars

C8_Witness ==
    /\ call = "running" /\ result = "ab"
    /\ current # 0 /\ inputs[current].kind = "InputBox"
    /\ inputs[current].promise = "settled" /\ inputs[current].value = "ab"

\* C9: a prompt has the Back button exactly when more than one step is on
\* the stack when it is created; the prompt of the first step on a fresh
\* runner has none, nor has the prompt of a step re-entered through Back at
\* depth 1.
C9_BackButton ==
    call = "awaiting" =>
        /\ BackButton \in inputs[current].buttons <=> Len(steps) > 1
        /\ invoked = 1 => BackButton \notin inputs[current].buttons
        /\ (outcome = back /\ Len(steps) = 1) => BackButton \notin inputs[current].buttons

C9_Witness ==
    /\ call = "awaiting" /\ outcome = back /\ Len(steps) = 1
    /\ BackButton \notin inputs[current].buttons

\* C10: pressing the Back button of a pending prompt gives the step no value:
\* the prompt operation fails with Back, and when the step lets it through
\* the runner re-enters the previous step; pressing another button resolves
\* the prompt operation with that button.
C10_BackButtonRaisesBack ==
    /\ [](call = "rejected" => Len(steps) >= 2)
    /\ [][/\ onDidTriggerButton(BackButton) => (call' = "rejected" /\ result' = result)
          /\ onDidTriggerButton(ExtraButton) => (call' = "running" /\ result' = ExtraButton)
          /\ stepPropagates =>
                /\ outcome' = back
                /\ call' = "running"
                /\ step' = steps[Len(steps) - 1]
                /\ steps' = SubSeq(steps, 1, Len(steps) - 1)]_vars

\* A step whose first prompt resolved with the extra button and whose second
\* prompt had its Back button pressed.
C10_Witness == call = "rejected" /\ result = ExtraButton /\ Len(steps) >= 2
\* C11: at most one prompt is on screen (shown and not disposed): every
\* prompt but the active one has been disposed.
C11_OnePromptVisible ==
    /\ \A i \in 1..Len(inputs) : i # current => inputs[i].disposed >= 1
    /\ Cardinality({i \in 1..Len(inputs) : inputs[i].disposed = 0}) <= 1

\* A second prompt is on screen and the first one has been disposed.
C11_Witness ==
    /\ Len(inputs) = 2 /\ current = 2
    /\ inputs[1].disposed = 1 /\ inputs[2].disposed = 0

\* C12: dismissing a pending prompt resolves the prompt operation with an
\* empty result; it neither fails it nor raises a control signal, and the
\* step's body goes on.
C12_DismissalResolvesEmpty ==
    [][onDidHide =>
        /\ call' = "running" /\ result' = None
        /\ inputs'[current].promise = "settled"
        /\ pc' = "running" /\ invoked' = invoked
        /\ steps' = steps /\ outcome' = outcome /\ runError' = None]_vars

\* The first step of a fresh runner goes on after its prompt was dismissed.
C12_Witness ==
    /\ invoked = 1 /\ Len(steps) = 1 /\ call = "running" /\ result = None
    /\ current # 0 /\ inputs[current].promise = "settled"

\* C13: a choice list with acceptFilterBoxTextAsSelection resolves with the
\* text of the filter box when the user accepts with no item selected.
C13_AcceptResolvesFilterText ==
    [][\A t \in Texts : onDidAcceptQuickPick(t) =>
        /\ inputs[current].acceptText
        /\ call' = "running" /\ result' = t
        /\ inputs'[current].promise = "settled"]_vars

C13_Witness ==
    /\ call = "running" /\ result \in Texts
    /\ current # 0 /\ inputs[current].kind = "QuickPick"
    /\ inputs[current].acceptText /\ inputs[current].promise = "settled"

\* The pending prompt operation of a choice list settles in this transition.
QuickPickSettles ==
    /\ current # 0 /\ current' = current
    /\ inputs[current].kind = "QuickPick"
    /\ inputs[current].promise = "pending"
    /\ inputs'[current].promise = "settled"

\* C14: a choice list resolves with the selected item, the pressed extra
\* button, the filter text (only when free text is allowed) or nothing (on
\* dismissal), each for its event; the event that settles it is the first, and
\* no later event changes what the step received.
C14_QuickPickResult ==
    [][/\ \A i \in Items : onDidChangeSelection(<<i>>) => (call' = "running" /\ result' = i)
       /\ QuickPickSettles =>
            \/ call' = "rejected" /\ result' = result
            \/ /\ call' = "running"
               /\ result' \in Items \cup {ExtraButton, None}
                        \cup (IF inputs[current].acceptText THEN Texts ELSE {})
       /\ (/\ current # 0 /\ current' = current
           /\ inputs[current].promise = "settled"
           /\ invoked' = invoked /\ pc' = pc) => result' = result]_vars

C14_Witness ==
    /\ call = "running" /\ result \in Items
    /\ current # 0 /\ inputs[current].kind = "QuickPick"
    /\ inputs[current].promise = "settled"
\* C15: when a step has updated the shared state and returns no next step,
\* the run completes without failure, the shared state still holds the
\* update, and the active prompt is disposed.
C15_EmptyReturnTerminates ==
    [][(stepReturns(None) /\ state = Answer) =>
          /\ pc' = "done"
          /\ runError' = None
          /\ state' = Answer
          /\ invoked' = invoked
          /\ current # 0 =>
                inputs'[current].disposed = inputs[current].disposed + 1]_vars

C15_Witness ==
    /\ pc = "done" /\ outcome = "forward" /\ runError = None
    /\ state = Answer
    /\ current # 0 /\ inputs[current].kind = "InputBox"
    /\ inputs[current].disposed = 1

\* C16: the stack length after N consecutive forward transitions is N:
\* entering the start step of a run leaves one level on the stack, and every
\* forward return to a further step adds exactly one.
C16_StackLengthIsN ==
    [][/\ \A s \in Steps : run(s) => Len(steps') = 1
       /\ \A n \in Steps : stepReturns(n) => Len(steps') = Len(steps) + 1]_vars

\* C17: a Back raised at depth two or more pops the raiser and the previous
\* step and pushes the previous step again, so the re-entered step runs one
\* level lower than the raiser did, on the raiser's stack without its top.
C17_BackOneLevelDown ==
    [][(BackRaised /\ Len(steps) >= 2) =>
          /\ pc' = "running" /\ call' = "running"
          /\ Len(steps') = Len(steps) - 1
          /\ steps' = Pop(steps)
          /\ step' = Popped(Pop(steps))]_vars

C17_Witness ==
    /\ outcome = back /\ pc = "running" /\ call = "running"
    /\ invoked = 3 /\ steps = <<"B">> /\ step = "B"

\* C18: every prompt the runner has shown is disposed exactly once: none is
\* disposed a second time, not even when the runner is used for a further
\* run, and when a run has ended the active prompt has been disposed.
C18_DisposedExactlyOnce ==
    /\ \A i \in 1..Len(inputs) : inputs[i].disposed <= 1
    /\ (pc = "done" /\ current # 0) => inputs[current].disposed = 1

\* C20: a Resume pops the stack once and the step that raised it is invoked
\* again next, on the very stack it ran on before.
C20_ResumeReentersSame ==
    [][stepThrows(resume) =>
          /\ pc' = "running" /\ call' = "running"
          /\ step' = step /\ step' = Popped(steps)
          /\ steps' = steps
          /\ invoked' = invoked + 1]_vars

C20_Witness ==
    /\ outcome = resume /\ pc = "running" /\ call = "running"
    /\ invoked = 3 /\ Len(steps) = 2 /\ step = steps[2]

\* Runner r takes a turn: a step entry, a forward return, a Back, Cancel,
\* Resume or failure, a write to its state object, or a prompt shown, settled
\* or disposed.
turnOf(r) ==
    \/ \E s \in Steps : runOf(r, s)
    \/ \E n \in Steps \cup {None} : stepReturnsOf(r, n)
    \/ \E err \in InputFlowAction \cup {Failure} : stepThrowsOf(r, err)
    \/ stepUpdatesOf(r)
    \/ showQuickPickOf(r)
    \/ settlesOf(r)

\* C19: two runners share no mutable state: whatever one runner does leaves
\* the other runner's step stack, state object, active-prompt slot and active
\* prompt as they were.
C19_RunnersShareNothing ==
    [][\A r \in Runners : turnOf(r) =>
          \A o \in Runners \ {r} :
             /\ stepsOf(o)' = stepsOf(o)
             /\ currentOf(o)' = currentOf(o)
             /\ shared'[o] = shared[o]
             /\ runs'[o] = runs[o]
             /\ currentOf(o) # 0 => inputs'[currentOf(o)] = inputs[currentOf(o)]]_vars

C19_Witness ==
    /\ runs["r1"].pc = "running" /\ runs["r2"].pc = "running"
    /\ stepsOf("r1") = <<"A", "B">> /\ stepsOf("r2") = <<"A">>
    /\ shared["r1"] = Answer /\ shared["r2"] = None
    /\ currentOf("r1") = 1 /\ currentOf("r2") = 2
    /\ inputs[1].disposed = 0 /\ inputs[2].disposed = 0

\* C21: the step stack is empty whenever a run starts, so the first step of
\* every run, also of a run that follows an earlier one on the same runner,
\* sees a stack of length 1, and a Back from it ends the run.
C21_StackEmptyAtRunStart ==
    [][/\ \A s \in Steps : run(s) => (steps = <<>> /\ steps' = <<s>>)
       /\ (outcome = "start" /\ BackRaised) => (pc' = "done" /\ invoked' = invoked)]_vars

\* The number of Back signals the runner takes in a row, each raised by the
\* step then in flight on the stack stk, until a Back ends the run; at most
\* fuel of them are counted.
RECURSIVE backHops(_, _)
backHops(stk, fuel) ==
    IF fuel = 0 \/ stk = <<>> THEN 0
    ELSE LET c == caught(back, stk)
         IN  IF c.step = None THEN 1
             ELSE 1 + backHops(Append(c.steps, c.step), fuel - 1)

\* C22: the stack never holds more entries than steps have been entered,
\* an entry is added only by entering a step, and while a step is in flight
\* the length of the stack is the number of Back hops still available.
C22_LengthIsBackHops ==
    /\ Len(steps) <= invoked
    /\ pc = "running" => backHops(steps, Len(steps) + 1) = Len(steps)

C22_Witness ==
    /\ pc = "running" /\ call = "running" /\ outcome = "forward"
    /\ Len(steps) = 3 /\ backHops(steps, 4) = 3

\* C23: handling Cancel does not touch the stack: when the run has ended by
\* Cancel the stack is what it was when Cancel was raised.
C23_CancelKeepsStack ==
    [][stepThrows(cancel) => (pc' = "done" /\ steps' = steps)]_vars

C23_Witness ==
    /\ outcome = cancel /\ pc = "done" /\ call = "none"
    /\ invoked = 2 /\ steps = <<"A", "B">>

\* C24: the step invocations of a run are strictly sequential: one step at
\* most is in flight, and a step is invoked only by a call of run when no
\* run is in progress, or when the step in flight has ended, not suspended
\* in a prompt, with the stack already what its forward return or its Back
\* or Resume leaves plus the step now entered.
C24_StepsSequential ==
    [][/\ (pc' = "running") <=> (step' # None /\ call' # "none")
       /\ invoked' # invoked =>
            /\ invoked' = invoked + 1
            /\ pc' = "running" /\ call' = "running"
            /\ \/ /\ pc # "running"
                  /\ outcome' = "start" /\ steps' = Append(steps, step')
               \/ /\ pc = "running" /\ call \in {"running", "rejected"}
                  /\ \/ outcome' = "forward" /\ steps' = Append(steps, step')
                     \/ /\ outcome' = back /\ step' = Popped(Pop(steps))
                        /\ steps' = Append(Pop(Pop(steps)), step')
                     \/ /\ outcome' = resume /\ step' = Popped(steps)
                        /\ steps' = Append(Pop(steps), step')]_vars

C24_Witness ==
    /\ pc = "running" /\ call = "running" /\ outcome = "forward"
    /\ invoked = 2 /\ steps = <<"A", "B">> /\ step = "B"
    /\ current # 0 /\ inputs[current].promise = "settled"

\* C25: every step invocation of a run, a re-invocation after Back or Resume
\* included, receives the state object that was passed to run, and nothing
\* the runner does replaces the object or changes its contents: only the
\* body of a step writes to it.
C25_SameStateObject ==
    [][/\ \A r \in Runners :
            /\ runs'[r].pc = "running" =>
                  (runs'[r].state = r /\ runs'[r].given = runs'[r].state)
            /\ runs[r].pc = "running" => runs'[r].state = runs[r].state
       /\ shared' # shared => \E r \in Runners : stepUpdatesOf(r)]_vars

C25_Witness ==
    /\ runs["r1"].pc = "running" /\ runs["r1"].given = "r1"
    /\ runs["r1"].was.before = <<"A", "B">> /\ stepsOf("r1") = <<"A">>
    /\ shared["r1"] = Answer
    /\ runs["r2"].pc = "running" /\ runs["r2"].given = "r2" /\ shared["r2"] = None

\* C30: Back followed by the same forward transition is a round trip on the
\* stack: when A returned B, B raised Back and the A entered again returns
\* B again, B runs on the stack it ran on the first time.
C30_BackForwardRoundTrip ==
    [][\A r \in Runners : \A n \in Steps :
          (stepReturnsOf(r, n) /\ returnsRaiser(r, n)) =>
              /\ runs'[r].step = n
              /\ stepsOf(r)' = runs[r].was.before]_vars

C30_Witness ==
    /\ runs["r1"].pc = "running" /\ runs["r1"].was.again
    /\ runs["r1"].step = "B"
    /\ stepsOf("r1") = <<"A", "B">> /\ runs["r1"].was.before = <<"A", "B">>

\* C26: when a step is invoked while a prompt is active, that prompt is
\* disabled and busy when the body of the step starts, and it stays the
\* active prompt until the step in flight shows a new prompt; the end of the
\* run does not replace it either.
C26_BusyBeforeStep ==
    [][/\ (invoked' = invoked + 1 /\ current # 0) =>
            /\ current' = current
            /\ ~inputs'[current].enabled /\ inputs'[current].busy
       /\ current' # current =>
            /\ pc = "running" /\ call = "running" /\ call' = "awaiting"
            /\ current' = Len(inputs')
            /\ inputs'[current'].promise = "pending"
            /\ inputs'[current'].disposed = 0]_vars

C26_Witness ==
    /\ pc = "running" /\ call = "running" /\ outcome = "forward" /\ invoked = 2
    /\ current = 1 /\ inputs[1].disposed = 0
    /\ ~inputs[1].enabled /\ inputs[1].busy

\* C27: while a step invocation is in flight the stack is not empty and
\* its top entry is the step being executed.
C27_TopIsStepInFlight ==
    pc = "running" => (steps # <<>> /\ Popped(steps) = step /\ step \in Steps)

C27_Witness ==
    /\ pc = "running" /\ call = "awaiting" /\ outcome = back
    /\ steps = <<"A">> /\ step = "A" /\ invoked = 3

\* An event of a prompt is delivered to one of its listeners, or a validate
\* call one of them awaits completes.
promptEvent ==
    \/ \E b \in {BackButton, ExtraButton} : onDidTriggerButton(b)
    \/ \E i \in Items : onDidChangeSelection(<<i>>)
    \/ onDidHide
    \/ \E t \in Texts : onDidAcceptQuickPick(t)
    \/ \E t \in Texts \cup {BadText} : onDidChangeValue(t)
    \/ \E i \in 1..Len(inputs) : \E v \in inputs[i].pending : validated(i, v)
    \/ onDidAcceptInputBox
    \/ \E i \in 1..Len(inputs) : submitted(i)

\* C28: a prompt operation settles at most once, with the first event: a
\* settled promise stays settled, and once the active prompt has resolved or
\* failed with Back no later event on it, the completion of a submission
\* validation included, changes the result the step received or the
\* navigation of the run.
C28_SettlesOnce ==
    [][/\ \A i \in 1..Len(inputs) :
            inputs[i].promise = "settled" => inputs'[i].promise = "settled"
       /\ (promptEvent /\ (current = 0 \/ inputs[current].promise = "settled")) =>
            UNCHANGED <<pc, step, steps, current, call, result, invoked, outcome,
                        runError, state>>]_vars

C28_Witness ==
    /\ pc = "running" /\ call = "running" /\ result = None
    /\ current # 0 /\ inputs[current].kind = "InputBox"
    /\ inputs[current].promise = "settled"
    /\ inputs[current].accepting = "ab"

\* C29: the listeners a prompt operation has registered are released when
\* it ends, however it ends (a resolution, a dismissal, a failure with
\* Back), and they are registered as long as the step awaits it.
C29_ListenersReleased ==
    /\ \A i \in 1..Len(inputs) :
          inputs[i].promise = "settled" => inputs[i].listeners = {}
    /\ call = "awaiting" =>
          /\ current # 0 /\ inputs[current].promise = "pending"
          /\ inputs[current].listeners =
                disposables(inputs[current].kind, inputs[current].acceptText)

C29_Witness ==
    /\ pc = "running" /\ call = "rejected"
    /\ current # 0 /\ inputs[current].kind = "InputBox"
    /\ inputs[current].promise = "settled" /\ inputs[current].listeners = {}

\* C31: a run in which every step invocation ends and only boundedly many
\* forward returns, Back re-entries and Resume signals occur terminates;
\* a Resume by itself never ends a run, it invokes the raiser once more.
C31_RunTerminates ==
    /\ (pc = "running") ~> (pc \in {"done", "failed"})
    /\ [][stepThrows(resume) =>
            (pc' = "running" /\ step' = step /\ invoked' = invoked + 1)]_vars

C31_Witness ==
    /\ pc = "done" /\ outcome = "forward" /\ call = "none"
    /\ invoked = 3 /\ steps = <<"A">> /\ current # 0

\* The validate call of a submission failed on prompt i, whose operation is
\* still pending: the prompt is disabled and busy with no submission left.
stuck(i) ==
    /\ inputs[i].kind = "InputBox" /\ inputs[i].promise = "pending"
    /\ ~inputs[i].enabled /\ inputs[i].busy
    /\ inputs[i].accepting = None

\* C32: when the validator fails on a submitted text, showInputBox does not
\* resolve with that text and the prompt is left disabled and busy; the
\* prompt operation then settles only through a dismissal or a button, never
\* with a text.
C32_ValidatorFailure ==
    [][\A i \in 1..Len(inputs) :
          /\ (submitted(i) /\ validate(inputs[i].accepting) = Failure) =>
                /\ inputs'[i].promise = inputs[i].promise
                /\ result' = result /\ call' = call
                /\ ~inputs'[i].enabled /\ inputs'[i].busy
          /\ stuck(i) =>
                /\ ~onDidAcceptInputBox
                /\ inputs'[i].promise = "pending" => (~inputs'[i].enabled /\ inputs'[i].busy)
                /\ inputs'[i].promise = "settled" =>
                      /\ onDidHide \/ \E b \in {BackButton, ExtraButton} : onDidTriggerButton(b)
                      /\ result' \notin Texts \cup {BadText}]_vars

C32_Witness ==
    /\ call = "awaiting" /\ current # 0 /\ stuck(current)
    /\ inputs[current].value = BadText /\ inputs[current].disposed = 0

\* C33: a prompt is not disposed when its operation resolves: it stays the
\* active prompt, undisposed, and the active prompt is disposed only when
\* the next prompt is shown or when the run ends normally.
C33_PromptOutlivesOperation ==
    [][current # 0 =>
          /\ inputs[current].promise = "pending" => inputs[current].disposed = 0
          /\ (inputs[current].promise = "pending" /\ inputs'[current].promise = "settled"
                 /\ call' = "running") =>
                (current' = current /\ inputs'[current].disposed = 0)
          /\ inputs'[current].disposed # inputs[current].disposed =>
                \/ current' = Len(inputs') /\ current' # current /\ call' = "awaiting"
                \/ pc = "running" /\ pc' = "done" /\ runError' = None]_vars

C33_Witness ==
    /\ pc = "running" /\ call = "running" /\ invoked = 1
    /\ result = "item"
    /\ current = 1 /\ inputs[1].kind = "QuickPick"
    /\ inputs[1].listeners = {} /\ inputs[1].disposed = 0

\* C34: a choice list configured without acceptFilterBoxTextAsSelection
\* has no accept listener: an accept leaves its operation pending, and the
\* operation never resolves with typed filter text.
C34_NoAcceptWithoutOption ==
    [][(current # 0 /\ inputs[current].kind = "QuickPick"
          /\ ~inputs[current].acceptText /\ inputs[current].promise = "pending") =>
          /\ "onDidAccept" \notin inputs[current].listeners
          /\ \A t \in Texts : ~onDidAcceptQuickPick(t)
          /\ (inputs'[current].promise = "settled" /\ call' = "running") =>
                result' \notin Texts]_vars

C34_Witness ==
    /\ pc = "running" /\ call = "awaiting"
    /\ current # 0 /\ usable(current) /\ inputs[current].kind = "QuickPick"
    /\ ~inputs[current].acceptText
    /\ inputs[current].listeners = {"onDidTriggerButton", "onDidChangeSelection", "onDidHide"}

====
